---- MODULE Spec2Model ----
(***************************************************************************)
(* Model of serve() in serve_modal.py: the static file resolver with SPA   *)
(* fallback.  Strings are sequences of one-character strings, a location   *)
(* is a sequence of path segments below the filesystem root "/", and the   *)
(* filesystem is a map from a few canonical locations to their kind.       *)
(* Each request runs serve() statement by statement with its own locals;   *)
(* the environment may create and remove filesystem entries in between.    *)
(***************************************************************************)
EXTENDS Naturals, Sequences, FiniteSets, TLC

\* ---------------------------------------------------------------- bounds
MaxLen == 5
NumReq == 2

\* ------------------------------------------------------------- constants
Alphabet == {"/", ".", "a"}
Assets == <<"a", "s", "s", "e", "t", "s">>
IndexHtml == <<"i", "n", "d", "e", "x", ".", "h", "t", "m", "l">>
DotDot == <<".", ".">>
AssetsRoot == <<Assets>>

Requests == 1..NumReq

\* Every request path up to MaxLen characters, plus "/index.html".
RequestPaths == UNION {[1..k -> Alphabet] : k \in 0..MaxLen} \cup {<<"/">> \o IndexHtml}

\* The request paths of the concurrent runs: "/", "/a", "/a.a".
ScenarioPaths == {<<"/">>, <<"/", "a">>, <<"/", "a", ".", "a">>}

\* ------------------------------------------------------------ filesystem
Kinds == {"absent", "file", "dir"}
NIndex == <<Assets, IndexHtml>>
NA == <<Assets, <<"a">>>>
NAA == <<Assets, <<"a">>, <<"a">>>>
NDot == <<Assets, <<"a", ".", "a">>>>
NOut == << <<"a">> >>
Nodes == {NIndex, NA, NAA, NDot, NOut}
NoEnt == << <<"/">> >>

\* The entries the environment touches during the concurrent runs.
EnvNodes == {NIndex, NA}

Parent(n) == SubSeq(n, 1, Len(n) - 1)

KindOf(fsys, c) ==
  IF c = <<>> \/ c = AssetsRoot THEN "dir"
  ELSE IF c \in Nodes THEN fsys[c]
  ELSE "absent"

FileSystems ==
  {f \in [Nodes -> Kinds] : \A n \in Nodes : f[n] # "absent" => KindOf(f, Parent(n)) = "dir"}

\* The kernel's path walk: every component but the last must be a
\* directory, ".." steps to the parent, and the root is its own parent.
RECURSIVE Walk(_, _, _)
Walk(fsys, cur, rest) ==
  IF rest = <<>> THEN cur
  ELSE IF KindOf(fsys, cur) # "dir" THEN NoEnt
  ELSE IF Head(rest) = DotDot
    THEN Walk(fsys, IF cur = <<>> THEN <<>> ELSE Parent(cur), Tail(rest))
    ELSE Walk(fsys, Append(cur, Head(rest)), Tail(rest))

Resolve(fsys, loc) == Walk(fsys, <<>>, loc)

Lookup(fsys, loc) ==
  LET c == Resolve(fsys, loc) IN IF c = NoEnt THEN "absent" ELSE KindOf(fsys, c)

\* Path.exists() and Path.is_file(): both stat the location and answer
\* False when the stat fails.
PathExists(fsys, loc) == Lookup(fsys, loc) # "absent"

IsFileAnyKind(fsys, loc) == Lookup(fsys, loc) # "absent"

IsFile(fsys, loc) == Lookup(fsys, loc) = "file"

\* ------------------------------------------------------- pure functions
lstripOne(s) == IF s # <<>> /\ Head(s) = "/" THEN Tail(s) ELSE s

\* str.lstrip("/"): drop every leading "/".
RECURSIVE lstrip(_)
lstrip(s) == IF s # <<>> /\ Head(s) = "/" THEN lstrip(Tail(s)) ELSE s

\* Lines 19-21: the normalized name.
NormalizeStripOne(rawPath) ==
  LET p == IF rawPath # <<>> /\ Head(rawPath) = "/" THEN Tail(rawPath) ELSE rawPath
  IN IF p = <<>> THEN IndexHtml ELSE p

NormalizeNoDefault(rawPath) == lstrip(rawPath)

NormalizeDefaultIndex(rawPath) ==
  LET p == lstrip(rawPath) IN IF p = <<>> THEN <<"i", "n", "d", "e", "x">> ELSE p

NormalizeName(rawPath) ==
  LET p == lstrip(rawPath) IN IF p = <<>> THEN IndexHtml ELSE p

\* Splitting a string at every "/".
RECURSIVE SplitSlash(_)
SplitSlash(s) ==
  IF s = <<>> THEN << <<>> >>
  ELSE LET rest == SplitSlash(Tail(s))
       IN IF Head(s) = "/" THEN << <<>> >> \o rest
          ELSE << <<Head(s)>> \o Head(rest) >> \o Tail(rest)

KeepSegment(seg) == seg # <<>> /\ seg # <<".">>

\* pathlib's parse of a string: empty and "." segments are dropped, ".."
\* segments are kept.
Parts(s) == SelectSeq(SplitSlash(s), KeepSegment)

\* Line 23, Path.__truediv__: an absolute right operand replaces the left.
JoinPath(root, name) ==
  IF name # <<>> /\ Head(name) = "/" THEN Parts(name) ELSE root \o Parts(name)

HasDotInBasename(name) ==
  LET base == SplitSlash(name)[Len(SplitSlash(name))]
  IN \E i \in 1..Len(base) : base[i] = "."

\* Line 30: "." in path.
HasDot(name) == \E i \in 1..Len(name) : name[i] = "."

\* Line 31: Path("/assets/index.html").
FallbackTargetRelative == <<IndexHtml>>

FallbackTarget == <<Assets, IndexHtml>>

NoOutcome == [tag |-> "None", loc |-> <<>>]
ServeFile(loc) == [tag |-> "ServeFile", loc |-> loc]
ServeFallback == [tag |-> "ServeFallback", loc |-> FallbackTarget]
NotFound == [tag |-> "NotFound", loc |-> <<>>]

\* Lines 26-33: the branch taken once the file test is known.
RespondDotFirst(name, candidate, isfile) ==
  IF ~HasDot(name) THEN ServeFallback
  ELSE IF isfile THEN ServeFile(candidate)
  ELSE NotFound

Respond(name, candidate, isfile) ==
  IF isfile THEN ServeFile(candidate)
  ELSE IF ~HasDot(name) THEN ServeFallback
  ELSE NotFound

\* ----------------------------------------------------------------- state
VARIABLES fs, pc, rawPath, path, file_path, found, outcome, readResult,
          stable, removedInWindow

vars == <<fs, pc, rawPath, path, file_path, found, outcome, readResult,
          stable, removedInWindow>>

locals == <<rawPath, path, file_path, found, outcome, readResult>>

Init ==
  /\ fs \in FileSystems
  /\ pc = [r \in Requests |-> "idle"]
  /\ rawPath = [r \in Requests |-> <<>>]
  /\ path = [r \in Requests |-> <<>>]
  /\ file_path = [r \in Requests |-> <<>>]
  /\ found = [r \in Requests |-> FALSE]
  /\ outcome = [r \in Requests |-> NoOutcome]
  /\ readResult = [r \in Requests |-> "none"]
  /\ stable = [r \in Requests |-> TRUE]
  /\ removedInWindow = [r \in Requests |-> FALSE]

\* A GET request arrives and serve() is entered with request.url.path = p.
Receive(r, p) ==
  /\ pc[r] = "idle"
  /\ rawPath' = [rawPath EXCEPT ![r] = p]
  /\ pc' = [pc EXCEPT ![r] = "normalize"]
  /\ stable' = [stable EXCEPT ![r] = TRUE]
  /\ removedInWindow' = [removedInWindow EXCEPT ![r] = FALSE]
  /\ UNCHANGED <<fs, path, file_path, found, outcome, readResult>>

\* Lines 19-21, with path a variable shared by every request.
NormalizeGlobal(r) ==
  /\ pc[r] = "normalize"
  /\ path' = [q \in Requests |-> NormalizeName(rawPath[r])]
  /\ pc' = [pc EXCEPT ![r] = "join"]
  /\ UNCHANGED <<fs, rawPath, file_path, found, outcome, readResult, stable, removedInWindow>>

\* Lines 19-21.
Normalize(r) ==
  /\ pc[r] = "normalize"
  /\ path' = [path EXCEPT ![r] = NormalizeName(rawPath[r])]
  /\ pc' = [pc EXCEPT ![r] = "join"]
  /\ UNCHANGED <<fs, rawPath, file_path, found, outcome, readResult, stable, removedInWindow>>

\* Line 23.
Join(r) ==
  /\ pc[r] = "join"
  /\ file_path' = [file_path EXCEPT ![r] = JoinPath(AssetsRoot, path[r])]
  /\ pc' = [pc EXCEPT ![r] = "exists"]
  /\ UNCHANGED <<fs, rawPath, path, found, outcome, readResult, stable, removedInWindow>>

\* Line 26, file_path.exists(): a False result short-circuits the `and`.
Exists(r) ==
  /\ pc[r] = "exists"
  /\ pc' = [pc EXCEPT ![r] = IF PathExists(fs, file_path[r]) THEN "is_file" ELSE "respond"]
  /\ found' = [found EXCEPT ![r] = FALSE]
  /\ UNCHANGED <<fs, rawPath, path, file_path, outcome, readResult, stable, removedInWindow>>

\* Line 26, file_path.is_file().
IsFileCheck(r) ==
  /\ pc[r] = "is_file"
  /\ found' = [found EXCEPT ![r] = IsFile(fs, file_path[r])]
  /\ pc' = [pc EXCEPT ![r] = "respond"]
  /\ UNCHANGED <<fs, rawPath, path, file_path, outcome, readResult, stable, removedInWindow>>

\* Lines 26-33: serve() returns its response object.
Return(r) ==
  /\ pc[r] = "respond"
  /\ LET o == Respond(path[r], file_path[r], found[r])
     IN /\ outcome' = [outcome EXCEPT ![r] = o]
        /\ pc' = [pc EXCEPT ![r] = IF o.tag = "NotFound" THEN "done" ELSE "read"]
  /\ UNCHANGED <<fs, rawPath, path, file_path, found, readResult, stable, removedInWindow>>

\* FileResponse is sent: the collaborator stats and reads the location and
\* fails when it is not a regular file at that moment.
Read(r) ==
  /\ pc[r] = "read"
  /\ readResult' = [readResult EXCEPT ![r] =
        IF Lookup(fs, outcome[r].loc) = "file" THEN "ok" ELSE "error"]
  /\ pc' = [pc EXCEPT ![r] = "done"]
  /\ UNCHANGED <<fs, rawPath, path, file_path, found, outcome, stable, removedInWindow>>

\* The response has been delivered; the request's frame is gone.
Finish(r) ==
  /\ pc[r] = "done"
  /\ pc' = [pc EXCEPT ![r] = "idle"]
  /\ rawPath' = [rawPath EXCEPT ![r] = <<>>]
  /\ path' = [path EXCEPT ![r] = <<>>]
  /\ file_path' = [file_path EXCEPT ![r] = <<>>]
  /\ found' = [found EXCEPT ![r] = FALSE]
  /\ outcome' = [outcome EXCEPT ![r] = NoOutcome]
  /\ readResult' = [readResult EXCEPT ![r] = "none"]
  /\ stable' = [stable EXCEPT ![r] = TRUE]
  /\ removedInWindow' = [removedInWindow EXCEPT ![r] = FALSE]
  /\ UNCHANGED fs

\* ----------------------------------------------------------- environment
InFlight(r) == pc[r] # "idle"

\* Between the is_file() test that let the request take the file branch
\* and the collaborator's read.
InWindow(r) == pc[r] \in {"respond", "read"} /\ found[r]

HasChild(fsys, n) == \E m \in Nodes : Len(m) > Len(n) /\ Parent(m) = n /\ fsys[m] # "absent"

\* Something outside the program creates a file or a directory.
EnvCreate(n, k) ==
  /\ fs[n] = "absent"
  /\ k # "absent"
  /\ KindOf(fs, Parent(n)) = "dir"
  /\ fs' = [fs EXCEPT ![n] = k]
  /\ stable' = [r \in Requests |-> stable[r] /\ ~InFlight(r)]
  /\ UNCHANGED <<pc, locals, removedInWindow>>

\* Something outside the program removes a file or an empty directory.
EnvRemove(n) ==
  /\ fs[n] # "absent"
  /\ ~HasChild(fs, n)
  /\ fs' = [fs EXCEPT ![n] = "absent"]
  /\ stable' = [r \in Requests |-> stable[r] /\ ~InFlight(r)]
  /\ removedInWindow' = [r \in Requests |->
        removedInWindow[r] \/
        (InWindow(r) /\ Lookup(fs, file_path[r]) = "file" /\ Lookup(fs', file_path[r]) # "file")]
  /\ UNCHANGED <<pc, locals>>

\* -------------------------------------------------------- specifications
Step(r) ==
  \/ Normalize(r)
  \/ Join(r)
  \/ Exists(r)
  \/ IsFileCheck(r)
  \/ Return(r)
  \/ Read(r)
  \/ Finish(r)

\* One request at a time, over every request path, on a filesystem that
\* does not change.
Next ==
  \/ \E p \in RequestPaths : Receive(1, p)
  \/ Step(1)

Spec == Init /\ [][Next]_vars

\* The layout of the built image: index.html, a and a.a are files.
ScenarioFs ==
  [n \in Nodes |-> IF n \in {NIndex, NA, NDot} THEN "file" ELSE "absent"]

ConcInit ==
  /\ Init
  /\ fs = ScenarioFs

\* NumReq requests in flight over the scenario paths, while the
\* environment changes the filesystem.
ConcNext ==
  \/ \E r \in Requests, p \in ScenarioPaths : Receive(r, p)
  \/ \E r \in Requests : Step(r)
  \/ \E n \in EnvNodes, k \in Kinds : EnvCreate(n, k)
  \/ \E n \in EnvNodes : EnvRemove(n)

ConcSpec == ConcInit /\ [][ConcNext]_vars

\* ---------------------------------------------------------------- claims
Done(r) == pc[r] = "done"
Normalized(r) == pc[r] \notin {"idle", "normalize"}
Joined(r) == pc[r] \notin {"idle", "normalize", "join"}
ContainsDot(s) == \E i \in 1..Len(s) : s[i] = "."
Candidate(r) == AssetsRoot \o Parts(path[r])
CandidateIsFile(r) == Lookup(fs, Candidate(r)) = "file"
UnderAssets(c) == c # NoEnt /\ Len(c) >= 1 /\ c[1] = Assets
HasDotDotSegment(s) == \E i \in 1..Len(SplitSlash(s)) : SplitSlash(s)[i] = DotDot
IndexLocation == <<Assets, IndexHtml>>
LeadingSlashes(s) ==
  CHOOSE k \in 0..Len(s) :
    (\A i \in 1..k : s[i] = "/") /\ (k = Len(s) \/ s[k + 1] # "/")

\* C1: no response names a file outside /assets, and a request path with a
\* ".." segment ends in NotFound.
C1_NoEscape ==
  \A r \in Requests :
    /\ outcome[r].tag = "ServeFile" => UnderAssets(Resolve(fs, outcome[r].loc))
    /\ (Done(r) /\ HasDotDotSegment(rawPath[r])) => outcome[r].tag = "NotFound"

C3_NoDotMissingIsFallback ==
  \A r \in Requests :
    (Done(r) /\ ~CandidateIsFile(r) /\ ~ContainsDot(path[r]))
      => (outcome[r].tag = "ServeFallback" /\ outcome[r].loc = IndexLocation)

C3_Witness ==
  \E r \in Requests :
    /\ Done(r) /\ ~ContainsDot(path[r])
    /\ Lookup(fs, Candidate(r)) = "dir"
    /\ Candidate(r) # IndexLocation
    /\ outcome[r].tag = "ServeFallback"

\* C4: a normalized name that is an existing regular file ends in ServeFile
\* of the assets root joined with that name, with or without a "." in it.
C4_ExistingFileIsServed ==
  \A r \in Requests :
    (Done(r) /\ CandidateIsFile(r))
      => (outcome[r].tag = "ServeFile" /\ outcome[r].loc = Candidate(r))

C4_Witness ==
  \E r \in Requests :
    /\ Done(r) /\ CandidateIsFile(r) /\ ~ContainsDot(path[r])
    /\ outcome[r].tag = "ServeFile" /\ readResult[r] = "ok"

\* C5: an empty request path or "/" ends in ServeFile(/assets/index.html)
\* when index.html is a regular file of the assets root.
C5_RootServesIndexFile ==
  \A r \in Requests :
    (Done(r) /\ rawPath[r] \in {<<>>, <<"/">>} /\ fs[NIndex] = "file")
      => (outcome[r].tag = "ServeFile" /\ outcome[r].loc = IndexLocation)

C5_Witness ==
  \E r \in Requests :
    /\ Done(r) /\ rawPath[r] = <<>> /\ fs[NIndex] = "file"
    /\ outcome[r].tag = "ServeFile"

\* C6 as stated: "/" without index.html reaches a read of
\* /assets/index.html that fails.
C6_Original ==
  \A r \in Requests :
    (Done(r) /\ rawPath[r] = <<"/">> /\ fs[NIndex] = "absent")
      => (outcome[r].tag = "ServeFallback" /\ readResult[r] = "error")

\* C6 amended: "/" without a regular file index.html ends in NotFound and
\* nothing is read.
C6_RootWithoutIndexIsNotFound ==
  \A r \in Requests :
    (Done(r) /\ rawPath[r] = <<"/">> /\ fs[NIndex] # "file")
      => (outcome[r].tag = "NotFound" /\ readResult[r] = "none")

C6_Witness ==
  \E r \in Requests :
    /\ Done(r) /\ rawPath[r] = <<"/">> /\ fs[NIndex] = "absent"
    /\ outcome[r].tag = "NotFound"

\* C7: two requests for the same path that both ran against the same
\* unchanged filesystem end in the same outcome, whatever else was
\* resolved before or between their steps.
C7_SamePathSameOutcome ==
  \A r, q \in Requests :
    (Done(r) /\ Done(q) /\ stable[r] /\ stable[q] /\ rawPath[r] = rawPath[q])
      => (outcome[r] = outcome[q] /\ readResult[r] = readResult[q])

C7_Witness ==
  \E r, q \in Requests :
    /\ r # q /\ Done(r) /\ Done(q) /\ stable[r] /\ stable[q]
    /\ rawPath[r] = rawPath[q] /\ outcome[r].tag = "ServeFallback"

\* C8 as stated: exactly one leading "/" is stripped, so a request path
\* that begins with two keeps all but the first.
C8_Original ==
  \A r \in Requests :
    (Normalized(r) /\ Len(rawPath[r]) >= 2 /\ rawPath[r][1] = "/" /\ rawPath[r][2] = "/")
      => path[r] = Tail(rawPath[r])

\* C8 amended: every leading "/" is stripped, and an empty result is
\* replaced by "index.html".
C8_StripsEveryLeadingSlash ==
  \A r \in Requests :
    Normalized(r) =>
      LET k == LeadingSlashes(rawPath[r])
          n == Len(rawPath[r])
      IN path[r] = IF k = n THEN IndexHtml ELSE SubSeq(rawPath[r], k + 1, n)

C8_Witness ==
  \E r \in Requests :
    /\ Normalized(r) /\ Len(rawPath[r]) >= 3
    /\ rawPath[r][1] = "/" /\ rawPath[r][2] = "/" /\ rawPath[r][3] = "a"
    /\ path[r][1] = "a"

\* C9: a response of the file branch whose candidate was not removed
\* between the is_file() test and the read is read from a regular file.
C9_ReadFailsOnlyAfterRemoval ==
  \A r \in Requests :
    (Done(r) /\ outcome[r].tag = "ServeFile" /\ ~removedInWindow[r])
      => readResult[r] = "ok"

C9_Witness ==
  \E r \in Requests :
    /\ Done(r) /\ outcome[r].tag = "ServeFile" /\ ~removedInWindow[r]
    /\ ~stable[r] /\ readResult[r] = "ok"

\* C10: the normalized name is never empty and never begins with "/", and
\* the candidate is the normalized name's segments appended to /assets.
C10_NameIsRelative ==
  \A r \in Requests :
    /\ Normalized(r) => (path[r] # <<>> /\ path[r][1] # "/")
    /\ Joined(r) => (file_path[r] = AssetsRoot \o Parts(path[r]))

C10_Witness ==
  \E r \in Requests :
    /\ Joined(r) /\ Len(rawPath[r]) >= 2
    /\ rawPath[r][1] = "/" /\ rawPath[r][2] = "/"
    /\ file_path[r][1] = Assets
====
